---------------------------- MODULE Spec2Model ----------------------------
(***************************************************************************)
(* A model of the expression language of curiosity-drive-continuations:    *)
(* the precedence-climbing parser (parse, with the operators helper) as    *)
(* recursive operators over token arrays, and the continuation-passing     *)
(* interpreter (interpret) as a state machine with one action per call of  *)
(* the source.                                                             *)
(***************************************************************************)
EXTENDS Integers, Sequences, FiniteSets, TLC

(***************************************************************************)
(* JavaScript's undefined, for a token read past the end of the token      *)
(* array and for a name that was never given.  No token has this text.     *)
(***************************************************************************)
UNDEFINED == "<undefined>"

(***************************************************************************)
(* The syntax tree.  A node has an annotations field only once             *)
(* `primary.annotations = annotations` has run on it.                      *)
(***************************************************************************)
Identifier(name) == [type |-> "Identifier", name |-> name]

FuncDefinition(args, body) == [type |-> "FuncDefinition", args |-> args, body |-> body]

FuncCall(func, args) == [type |-> "FuncCall", func |-> func, args |-> args]

(***************************************************************************)
(* The token classes the regular expressions of the source tell apart.     *)
(* TLA+ strings have no characters to match, so each class is the set of   *)
(* the modelled tokens that match.                                         *)
(***************************************************************************)
\* tokens matching /^[A-Za-z0-9_]/ (getPrecedence)
WordTokens == {"a", "b", "c", "d", "f", "x", "fn", "2", "3", "6", "10"}

\* tokens matching /^\@[A-Za-z0-9_]+$/ (nextAnnotations)
AnnotationTokens == {"@lazy", "@x"}

\* tokens t with t.trim() === "" (nextToken)
WhitespaceTokens == {" ", "\n"}

trim(token) == IF token \in WhitespaceTokens THEN "" ELSE token

(***************************************************************************)
(* operators.js                                                            *)
(***************************************************************************)
\* null and the undefined of `return;` are both falsy and are only ever
\* tested for truthiness by the parser: both are modelled as 0.
NOT_OPERATOR == 0

WORD_OPERATOR == 5

CUSTOM_OPERATOR == 10

SMALL_PRECEDENCE == 4

LOW_PRECEDENCE == 0

operators ==
    [t \in {"{", "(", "}", ")", ",", ";", "=", "+", "-", "*", "/"} |->
        CASE t \in {"{", "(", "}", ")", ","} -> NOT_OPERATOR
          [] t = ";" -> 2
          [] t = "=" -> 3
          [] t \in {"+", "-"} -> 20
          [] t \in {"*", "/"} -> 40]

getPrecedence(operator) ==
    IF operator = UNDEFINED THEN NOT_OPERATOR
    ELSE IF operator \in DOMAIN operators THEN operators[operator]
    ELSE IF operator \in WordTokens THEN WORD_OPERATOR
    ELSE CUSTOM_OPERATOR

bindsToRight(operator) == operator = ":"

(***************************************************************************)
(* The scanner's token cursor: p.matches is the array of tokens,           *)
(* p.index the index of the closure of scan (from -1, counting from 0 as   *)
(* the source does), p.currentToken the variable of parse.                 *)
(***************************************************************************)
scanNext(p) ==
    LET index == p.index + 1
    IN  [index |-> index,
         value |-> IF index < Len(p.matches) THEN p.matches[index + 1] ELSE UNDEFINED]

RECURSIVE nextToken(_)
nextToken(p) ==
    LET n == scanNext(p)
        q == [p EXCEPT !.index = n.index, !.currentToken = n.value]
    IN  IF n.value # UNDEFINED /\ trim(n.value) = "" THEN nextToken(q) ELSE q

(***************************************************************************)
(* The outcome of a parsing function: a node (or a list of nodes) and the  *)
(* cursor after it, or a thrown SyntaxError.                               *)
(***************************************************************************)
Return(p, node) == [thrown |-> FALSE, p |-> p, node |-> node]

ThrowSyntaxError(p, message) ==
    [thrown |-> TRUE, error |-> "SyntaxError", message |-> message, p |-> p]

\* nextExpression() is called without a precedence at the top and for each
\* argument: `tokenPrec < undefined` is false, as `tokenPrec < 0` is for
\* every truthy tokenPrec.
UndefinedPrecedence == 0

\* primary.annotations = annotations
SetAnnotations(primary, annotations) ==
    CASE primary.type = "Identifier" ->
           [type |-> "Identifier", name |-> primary.name, annotations |-> annotations]
      [] primary.type = "FuncDefinition" ->
           [type |-> "FuncDefinition", args |-> primary.args, body |-> primary.body,
            annotations |-> annotations]
      [] primary.type = "FuncCall" ->
           [type |-> "FuncCall", func |-> primary.func, args |-> primary.args,
            annotations |-> annotations]

nextIdentifier(p) == Return(nextToken(p), Identifier(p.currentToken))

RECURSIVE nextAnnotations(_, _)
nextAnnotations(p, annotations) ==
    IF p.currentToken # UNDEFINED /\ p.currentToken \in AnnotationTokens
    THEN nextAnnotations(nextToken(p), Append(annotations, p.currentToken))
    ELSE Return(p, annotations)

(***************************************************************************)
(* The parsing functions call one another recursively.  Each is an         *)
(* operator of its own, and calls the others through parser, which         *)
(* dispatches on the name of the function called.                          *)
(***************************************************************************)
RECURSIVE parser(_, _)

nextExpression(p, precedence) ==
    LET left == parser("nextPrimary", <<p>>)
    IN  IF left.thrown THEN left
        ELSE parser("nextBinaryOperator", <<left.p, precedence, left.node>>)

\* while (currentToken === "(") primary = nextFunctionArguments(primary);
nextPrimaryCalls(p, primary) ==
    IF p.currentToken = "("
    THEN LET call == parser("nextFunctionArguments", <<p, primary>>)
         IN  IF call.thrown THEN call
             ELSE parser("nextPrimaryCalls", <<call.p, call.node>>)
    ELSE Return(p, primary)

\* the body of nextPrimary after the end-of-input test
nextPrimaryAnnotated(p) ==
    LET a == nextAnnotations(p, <<>>)
        primary == IF a.p.currentToken = "fn" THEN parser("nextFunctionDefinition", <<a.p>>)
                   ELSE IF a.p.currentToken = "{" THEN parser("nextParams", <<a.p>>)
                   ELSE nextIdentifier(a.p)
        called == IF primary.thrown THEN primary
                  ELSE parser("nextPrimaryCalls", <<primary.p, primary.node>>)
    IN  IF called.thrown THEN called
        ELSE Return(called.p, SetAnnotations(called.node, a.node))

nextPrimary(p) ==
    IF p.currentToken = UNDEFINED
    THEN ThrowSyntaxError(p, "Unexpected end of input.")
    ELSE nextPrimaryAnnotated(p)

\* Called by nextPrimary and defined nowhere in the source: a primary
\* followed by '(' becomes the callee of a FuncCall over the parenthesised
\* argument list.
nextFunctionArguments(p, func) ==
    LET args == parser("nextArguments", <<p>>)
    IN  IF args.thrown THEN args ELSE Return(args.p, FuncCall(func, args.node))

nextFunctionDefinition(p) ==
    LET q == nextToken(p)
    IN  IF q.currentToken # "("
        THEN ThrowSyntaxError(q, "Expected '(' in function definition")
        ELSE LET args == parser("nextArguments", <<q>>)
             IN  IF args.thrown THEN args
                 ELSE LET body == parser("nextExpression", <<args.p, SMALL_PRECEDENCE>>)
                      IN  IF body.thrown THEN body
                          ELSE Return(body.p, FuncDefinition(args.node, body.node))

nextParams(p) ==
    LET expression == parser("nextExpression", <<nextToken(p), LOW_PRECEDENCE>>)
    IN  IF expression.thrown THEN expression
        ELSE IF expression.p.currentToken # "}"
        THEN ThrowSyntaxError(expression.p, "Expected '}'")
        ELSE Return(nextToken(expression.p), expression.node)

\* one turn of the loop of nextBinaryOperator, and the turns after it
nextBinaryOperator(p, precedence, left) ==
    LET tokenPrec == getPrecedence(p.currentToken)
    IN  IF tokenPrec = NOT_OPERATOR \/ tokenPrec < precedence THEN Return(p, left)
        ELSE
        LET operator == nextIdentifier(p)
            right == parser("nextPrimary", <<operator.p>>)
        IN  IF right.thrown THEN right
            ELSE
            LET nextTokenPrec == getPrecedence(right.p.currentToken)
                \* 0 is the nextPrec that was never assigned
                nextPrec ==
                    IF nextTokenPrec = NOT_OPERATOR THEN 0
                    ELSE IF tokenPrec < nextTokenPrec THEN tokenPrec + 1
                    ELSE IF tokenPrec = nextTokenPrec /\ bindsToRight(operator.node.name)
                    THEN tokenPrec
                    ELSE 0
                extended == IF nextPrec # 0
                            THEN parser("nextBinaryOperator", <<right.p, nextPrec, right.node>>)
                            ELSE right
            IN  IF extended.thrown THEN extended
                ELSE parser("nextBinaryOperator",
                            <<extended.p, precedence,
                              FuncCall(operator.node, <<left, extended.node>>)>>)

\* one turn of the loop of nextArguments, and the turns after it
nextArgumentsLoop(p, args) ==
    LET expression == parser("nextExpression", <<p, UndefinedPrecedence>>)
    IN  IF expression.thrown THEN expression
        ELSE IF expression.p.currentToken = ")"
        THEN Return(nextToken(expression.p), Append(args, expression.node))
        ELSE IF expression.p.currentToken # ","
        THEN ThrowSyntaxError(expression.p, "Expected ','")
        ELSE parser("nextArgumentsLoop",
                    <<nextToken(expression.p), Append(args, expression.node)>>)

nextArguments(p) ==
    LET q == nextToken(p)
    IN  IF q.currentToken = ")" THEN Return(nextToken(q), <<>>)
        ELSE parser("nextArgumentsLoop", <<q, <<>>>>)

parser(function, a) ==
    CASE function = "nextExpression" -> nextExpression(a[1], a[2])
      [] function = "nextPrimary" -> nextPrimary(a[1])
      [] function = "nextPrimaryCalls" -> nextPrimaryCalls(a[1], a[2])
      [] function = "nextFunctionArguments" -> nextFunctionArguments(a[1], a[2])
      [] function = "nextFunctionDefinition" -> nextFunctionDefinition(a[1])
      [] function = "nextParams" -> nextParams(a[1])
      [] function = "nextBinaryOperator" -> nextBinaryOperator(a[1], a[2], a[3])
      [] function = "nextArguments" -> nextArguments(a[1])
      [] function = "nextArgumentsLoop" -> nextArgumentsLoop(a[1], a[2])

parse(matches) ==
    LET p == nextToken([matches |-> matches, index |-> -1, currentToken |-> UNDEFINED])
        topExpression == parser("nextExpression", <<p, UndefinedPrecedence>>)
    IN  IF topExpression.thrown THEN topExpression
        ELSE IF topExpression.p.currentToken # UNDEFINED
        THEN ThrowSyntaxError(topExpression.p, "Text after the end of input")
        ELSE topExpression

(***************************************************************************)
(* Runtime values.  A closure is the object compile returns, a partial the *)
(* object invoke returns to an under-application (it has length and        *)
(* execute, and no parameters), a function a host primitive.               *)
(***************************************************************************)
Number(value) == [tag |-> "number", value |-> value]

HostFunction(name, length) == [tag |-> "function", name |-> name, length |-> length]

Undefined == [tag |-> "undefined"]

\* object.field where the field may be missing: <<>> for undefined,
\* <<v>> for the value v
Property(object, field) == IF field \in DOMAIN object THEN <<object[field]>> ELSE <<>>

\* The global bindings of the host: the arithmetic primitives of the example
\* program, a primitive with an observable effect, and a number.
Globals ==
    [name \in {"+", "-", "*", "tick", "g"} |->
        CASE name \in {"+", "-", "*"} -> HostFunction(name, 2)
          [] name = "tick" -> HostFunction(name, 0)
          [] name = "g" -> Number(9)]

\* the names parseInt(name, 10) reads as a number, at their value plus one
NumericNames == <<"0", "1", "2", "3", "4", "5", "6", "7", "8", "9", "10">>

parseInt(name) ==
    IF \E i \in DOMAIN NumericNames : NumericNames[i] = name
    THEN [isNaN |-> FALSE, value |-> (CHOOSE i \in DOMAIN NumericNames : NumericNames[i] = name) - 1]
    ELSE [isNaN |-> TRUE]

(***************************************************************************)
(* Scopes are objects chained by prototype: scopes[i].proto is the object  *)
(* Object.create was given (0 ends the chain), scopes[i].own the           *)
(* properties assigned on the object itself.                               *)
(***************************************************************************)
RECURSIVE In(_, _, _)
\* name in variables
In(scopes, name, variables) ==
    /\ variables # 0
    /\ \/ name \in DOMAIN scopes[variables].own
       \/ In(scopes, name, scopes[variables].proto)

RECURSIVE Get(_, _, _)
\* variables[name]
Get(scopes, variables, name) ==
    IF variables = 0 THEN Undefined
    ELSE IF name \in DOMAIN scopes[variables].own THEN scopes[variables].own[name]
    ELSE Get(scopes, scopes[variables].proto, name)

(***************************************************************************)
(* The machine m: the call in progress (m.control), the heap of scopes and *)
(* of continuation closures, and what the host observes.  Every call of    *)
(* the source is a tail call, so the call in progress is the whole native  *)
(* stack that matters.                                                     *)
(***************************************************************************)
Call(m, control) == [m EXCEPT !.control = control]

Throw(m, error) == [m EXCEPT !.control = [op |-> "thrown", error |-> error]]

\* continuation(value)
Continue(m, continuation, value) ==
    Call(m, [op |-> "continuation", continuation |-> continuation, value |-> value])

Evaluate(m, node, variables, continuation) ==
    Call(m, [op |-> "evaluate", node |-> node, variables |-> variables,
             continuation |-> continuation])

Record(m, event) == [m EXCEPT !.log = Append(@, event)]

\* a new continuation closure; its identity is its place in the heap
NewContinuation(m, closure) == [m EXCEPT !.continuations = Append(@, closure)]

Newest(m) == Len(m.continuations)

Entered(m, continuation) ==
    [m EXCEPT !.continuations[continuation].calls = @ + 1]

\* substitute without the test that the name is bound
substituteUnchecked(m, variables, name) ==
    IF ~parseInt(name).isNaN THEN [thrown |-> FALSE, value |-> Number(parseInt(name).value)]
    ELSE [thrown |-> FALSE, value |-> Get(m.scopes, variables, name)]

substitute(m, variables, name) ==
    IF ~parseInt(name).isNaN THEN [thrown |-> FALSE, value |-> Number(parseInt(name).value)]
    ELSE IF ~In(m.scopes, name, variables) THEN [thrown |-> TRUE, error |-> "symbol is not bound."]
    ELSE [thrown |-> FALSE, value |-> Get(m.scopes, variables, name)]

compile(scope, parameters, body) ==
    [tag |-> "closure", parameters |-> parameters, body |-> body, scope |-> scope,
     length |-> Len(parameters)]

hasAnnotation(parameters, index, annotation) ==
    /\ parameters # <<>>
    /\ index < Len(parameters[1])
    /\ "annotations" \in DOMAIN parameters[1][index + 1]
    /\ \E i \in DOMAIN parameters[1][index + 1].annotations :
          parameters[1][index + 1].annotations[i] = annotation

\* Identifier.prototype.evaluate
IdentifierEvaluate(m, node, variables, continuation) ==
    LET value == substitute(m, variables, node.name)
    IN  IF value.thrown THEN Throw(m, value.error)
        ELSE Continue(m, continuation, value.value)

\* FuncDefinition.prototype.evaluate
FuncDefinitionEvaluate(m, node, variables, continuation) ==
    LET func == compile(variables, node.args, node.body)
    IN  Continue(Record(m, [event |-> "compile", func |-> func, variables |-> variables]),
                 continuation, func)

\* FuncCall.prototype.evaluate: this.func.evaluate(context, variables, continueFunc)
FuncCallEvaluate(m, node, variables, continuation) ==
    LET n == NewContinuation(m, [kind |-> "continueFunc", args |-> node.args,
                                 variables |-> variables, continuation |-> continuation,
                                 calls |-> 0])
    IN  Evaluate(Record(n, [event |-> "call", call |-> Newest(n)]),
                 node.func, variables, Newest(n))

\* continueFunc(func): values = []; continueArg(0, continuation)
continueFunc(m, self, func) ==
    LET k == m.continuations[self]
    IN  Call(Record(m, [event |-> "callee", call |-> self, func |-> func]),
             [op |-> "continueArg", call |-> self, func |-> func, args |-> k.args,
              variables |-> k.variables, values |-> <<>>, index |-> 0,
              continuation |-> k.continuation])

\* continueArg(index, continuation)
continueArg(m, c) ==
    IF c.index < Len(c.args)
    THEN LET n == NewContinuation(m, [kind |-> "bindArgument", call |-> c.call,
                                      func |-> c.func, args |-> c.args,
                                      variables |-> c.variables, values |-> c.values,
                                      index |-> c.index, continuation |-> c.continuation,
                                      calls |-> 0])
         IN  Call(n, [op |-> "evaluateArgument", call |-> c.call, variables |-> c.variables,
                      func |-> c.func, index |-> c.index, value |-> c.args[c.index + 1],
                      continuation |-> Newest(n)])
    ELSE Call(Record(m, [event |-> "resolved", call |-> c.call, values |-> c.values]),
              [op |-> "invoke", variables |-> c.variables, func |-> c.func,
               args |-> c.values, continuation |-> c.continuation,
               target |-> c.func, since |-> m.wrapCalls])

\* values[index] = value on the array of the call
SetIndex(values, index, value) ==
    [i \in 1..(IF index + 1 > Len(values) THEN index + 1 ELSE Len(values)) |->
        IF i = index + 1 THEN value
        ELSE IF i <= Len(values) THEN values[i] ELSE Undefined]

\* bindArgument putting the value in front of the values: values.unshift(value)
bindArgumentUnshift(m, self, value) ==
    LET k == m.continuations[self]
    IN  Call(Record(m, [event |-> "bound", call |-> k.call, index |-> k.index,
                        value |-> value]),
             [op |-> "continueArg", call |-> k.call, func |-> k.func, args |-> k.args,
              variables |-> k.variables, values |-> <<value>> \o k.values,
              index |-> k.index + 1, continuation |-> k.continuation])

\* bindArgument(value): values[index] = value; continueArg(index + 1, continuation)
bindArgument(m, self, value) ==
    LET k == m.continuations[self]
    IN  Call(Record(m, [event |-> "bound", call |-> k.call, index |-> k.index,
                        value |-> value]),
             [op |-> "continueArg", call |-> k.call, func |-> k.func, args |-> k.args,
              variables |-> k.variables, values |-> SetIndex(k.values, k.index, value),
              index |-> k.index + 1, continuation |-> k.continuation])

evaluateArgument(m, c) ==
    IF hasAnnotation(Property(c.func, "parameters"), c.index, "@lazy")
    THEN LET thunk == compile(c.variables, <<>>, c.value)
         IN  Continue(Record(Record(m, [event |-> "argument", call |-> c.call,
                                        index |-> c.index, func |-> c.func,
                                        node |-> c.value, lazy |-> TRUE]),
                             [event |-> "compile", func |-> thunk,
                              variables |-> c.variables]),
                      c.continuation, thunk)
    ELSE Evaluate(Record(m, [event |-> "argument", call |-> c.call, index |-> c.index,
                             func |-> c.func, node |-> c.value, lazy |-> FALSE]),
                  c.value, c.variables, c.continuation)

(***************************************************************************)
(* The wrapper the host passes to interpret.  "identity" is the one of the *)
(* example program; "trace" returns a new continuation that calls the      *)
(* given one once.                                                         *)
(***************************************************************************)
wrapInvocation(m, continuation) ==
    LET counted == [m EXCEPT !.wrapCalls = @ + 1]
        n == IF m.wrapInvocation = "identity" THEN counted
             ELSE NewContinuation(counted, [kind |-> "wrapped",
                                            continuation |-> continuation, calls |-> 0])
        returned == IF m.wrapInvocation = "identity" THEN continuation ELSE Newest(n)
    IN  [m |-> Record(n, [event |-> "wrap", given |-> continuation, returned |-> returned]),
         continuation |-> returned]

\* the continuation the trace wrapper returned: it passes the value on
wrapped(m, self, value) == Continue(m, m.continuations[self].continuation, value)

\* func.apply(variables, args) of a host primitive
apply(m, func, variables, args) ==
    LET numbers == Len(args) >= 2 /\ args[1].tag = "number" /\ args[2].tag = "number"
    IN  CASE func.name = "tick" ->
               [m |-> [m EXCEPT !.effects = @ + 1], value |-> Number(m.effects + 1)]
          [] func.name = "+" ->
               [m |-> m, value |-> IF numbers THEN Number(args[1].value + args[2].value)
                                   ELSE [tag |-> "string"]]
          [] func.name = "-" ->
               [m |-> m, value |-> IF numbers THEN Number(args[1].value - args[2].value)
                                   ELSE [tag |-> "NaN"]]
          [] func.name = "*" ->
               [m |-> m, value |-> IF numbers THEN Number(args[1].value * args[2].value)
                                   ELSE [tag |-> "NaN"]]

\* the object invoke hands to the continuation of an under-application
Partial(func, args) ==
    [tag |-> "partial", func |-> func, args |-> args, length |-> func.length - Len(args)]

\* invoke returning the partial application instead of continuing with it
invokeReturningPartial(m, c) ==
    LET w == wrapInvocation(m, c.continuation)
        continuation == w.continuation
        taken(branch) == Record(w.m, [event |-> "invoke", func |-> c.func,
                                      args |-> c.args, branch |-> branch,
                                      continuation |-> continuation])
    IN  IF c.func.tag = "undefined" THEN Throw(w.m, "TypeError")
        ELSE IF "length" \in DOMAIN c.func /\ c.func.length > Len(c.args)
        THEN Call(taken("partial"), [op |-> "returned"])
        ELSE IF c.func.tag = "function"
        THEN LET r == apply(Record(taken("apply"),
                                   [event |-> "reached", target |-> c.target,
                                    wraps |-> w.m.wrapCalls - c.since]),
                            c.func, c.variables, c.args)
             IN  Continue(r.m, continuation, r.value)
        ELSE IF c.func.tag \in {"closure", "partial"}
        THEN Call(taken("execute"),
                  [op |-> "execute", func |-> c.func, variables |-> c.variables,
                   args |-> c.args, continuation |-> continuation,
                   target |-> c.target, since |-> c.since])
        ELSE Throw(w.m, "Func must be a function.")

\* invoke wrapping the continuation only once the arity is met: a partial
\* application goes to the continuation as given
invokeWrappingLate(m, c) ==
    LET w == wrapInvocation(m, c.continuation)
        continuation == w.continuation
        taken(n, branch, k) == Record(n, [event |-> "invoke", func |-> c.func,
                                          args |-> c.args, branch |-> branch,
                                          continuation |-> k])
    IN  IF c.func.tag = "undefined" THEN Throw(m, "TypeError")
        ELSE IF "length" \in DOMAIN c.func /\ c.func.length > Len(c.args)
        THEN Continue(taken(m, "partial", c.continuation), c.continuation,
                      Partial(c.func, c.args))
        ELSE IF c.func.tag = "function"
        THEN LET r == apply(Record(taken(w.m, "apply", continuation),
                                   [event |-> "reached", target |-> c.target,
                                    wraps |-> w.m.wrapCalls - c.since]),
                            c.func, c.variables, c.args)
             IN  Continue(r.m, continuation, r.value)
        ELSE IF c.func.tag \in {"closure", "partial"}
        THEN Call(taken(w.m, "execute", continuation),
                  [op |-> "execute", func |-> c.func, variables |-> c.variables,
                   args |-> c.args, continuation |-> continuation,
                   target |-> c.target, since |-> c.since])
        ELSE Throw(w.m, "Func must be a function.")

invoke(m, c) ==
    LET w == wrapInvocation(m, c.continuation)
        continuation == w.continuation
        taken(branch) == Record(w.m, [event |-> "invoke", func |-> c.func,
                                      args |-> c.args, branch |-> branch,
                                      continuation |-> continuation])
    IN  IF c.func.tag = "undefined" THEN Throw(w.m, "TypeError")
        ELSE IF "length" \in DOMAIN c.func /\ c.func.length > Len(c.args)
        THEN Continue(taken("partial"), continuation, Partial(c.func, c.args))
        ELSE IF c.func.tag = "function"
        THEN LET r == apply(Record(taken("apply"),
                                   [event |-> "reached", target |-> c.target,
                                    wraps |-> w.m.wrapCalls - c.since]),
                            c.func, c.variables, c.args)
             IN  Continue(r.m, continuation, r.value)
        ELSE IF c.func.tag \in {"closure", "partial"}
        THEN Call(taken("execute"),
                  [op |-> "execute", func |-> c.func, variables |-> c.variables,
                   args |-> c.args, continuation |-> continuation,
                   target |-> c.target, since |-> c.since])
        ELSE Throw(w.m, "Func must be a function.")

\* symbols[parameters[i].name] = args[i] for i = 0, 1, ...: the last
\* parameter of a name wins
Bindings(parameters, args) ==
    [name \in {parameters[i].name : i \in DOMAIN parameters} |->
        LET i == CHOOSE i \in DOMAIN parameters :
                    /\ parameters[i].name = name
                    /\ \A j \in DOMAIN parameters : parameters[j].name = name => j <= i
        IN  IF i <= Len(args) THEN args[i] ELSE Undefined]

\* execute making the new scope over the scope of the call
closureExecuteDynamic(m, c) ==
    LET symbols == Len(m.scopes) + 1
        created == [m EXCEPT !.scopes =
                       Append(@, [proto |-> c.variables,
                                  own |-> Bindings(c.func.parameters, c.args)])]
    IN  Evaluate(Record(created, [event |-> "execute", func |-> c.func,
                                  variables |-> c.variables, symbols |-> symbols,
                                  target |-> c.target,
                                  wraps |-> m.wrapCalls - c.since]),
                 c.func.body, symbols, c.continuation)

\* execute of the object compile returns
closureExecute(m, c) ==
    LET symbols == Len(m.scopes) + 1
        created == [m EXCEPT !.scopes =
                       Append(@, [proto |-> c.func.scope,
                                  own |-> Bindings(c.func.parameters, c.args)])]
    IN  Evaluate(Record(created, [event |-> "execute", func |-> c.func,
                                  variables |-> c.variables, symbols |-> symbols,
                                  target |-> c.target,
                                  wraps |-> m.wrapCalls - c.since]),
                 c.func.body, symbols, c.continuation)

\* execute of the object invoke returns to an under-application
partialExecute(m, c) ==
    Call(m, [op |-> "invoke", variables |-> c.variables, func |-> c.func.func,
             args |-> c.func.args \o c.args, continuation |-> c.continuation,
             target |-> c.target, since |-> c.since])

\* the callback of the host: the example program prints the result
callback(m, self, value) ==
    Call([m EXCEPT !.callbackCalls = @ + 1, !.result = value], [op |-> "returned"])

\* interpret: expression.evaluate(context, globals, callback)
interpret(m) == Evaluate(m, m.expression, 1, 1)

\* the call in progress is made
Step(m) ==
    LET c == m.control
    IN  CASE c.op = "interpret" -> interpret(m)
          [] c.op = "evaluate" ->
               (CASE c.node.type = "Identifier" ->
                       IdentifierEvaluate(m, c.node, c.variables, c.continuation)
                  [] c.node.type = "FuncDefinition" ->
                       FuncDefinitionEvaluate(m, c.node, c.variables, c.continuation)
                  [] c.node.type = "FuncCall" ->
                       FuncCallEvaluate(m, c.node, c.variables, c.continuation))
          [] c.op = "continuation" ->
               (LET k == m.continuations[c.continuation]
                    e == Entered(m, c.continuation)
                IN  CASE k.kind = "callback" -> callback(e, c.continuation, c.value)
                      [] k.kind = "continueFunc" -> continueFunc(e, c.continuation, c.value)
                      [] k.kind = "bindArgument" -> bindArgument(e, c.continuation, c.value)
                      [] k.kind = "wrapped" -> wrapped(e, c.continuation, c.value))
          [] c.op = "continueArg" -> continueArg(m, c)
          [] c.op = "evaluateArgument" -> evaluateArgument(m, c)
          [] c.op = "invoke" -> invoke(m, c)
          [] c.op = "execute" ->
               IF c.func.tag = "closure" THEN closureExecute(m, c) ELSE partialExecute(m, c)

Terminal(m) == m.control.op \in {"returned", "thrown"}

\* the state of a new interpret call
Start(expression, wrapper) ==
    [control |-> [op |-> "interpret"],
     expression |-> expression,
     wrapInvocation |-> wrapper,
     scopes |-> <<[proto |-> 0, own |-> Globals]>>,
     continuations |-> <<[kind |-> "callback", calls |-> 0]>>,
     log |-> <<>>,
     wrapCalls |-> 0,
     callbackCalls |-> 0,
     result |-> Undefined,
     effects |-> 0]

RECURSIVE Run(_)
Run(m) == IF Terminal(m) THEN m ELSE Run(Step(m))

(***************************************************************************)
(* The inputs.  Token arrays for parse, syntax trees for interpret.        *)
(***************************************************************************)
\* longest operator chain given to parse
MaxOperators == 3

\* most parameters of a curried closure
MaxParams == 3

\* most arguments of a call over the leaves
MaxArgs == 2

\* most argument lists after an annotated primary
MaxCalls == 2

RECURSIVE Flatten(_)
Flatten(seqs) == IF seqs = <<>> THEN <<>> ELSE Head(seqs) \o Flatten(Tail(seqs))

SeqsOf(S, n) == UNION {[1..k -> S] : k \in 0..n}

\* the tokens with the whitespace tokens the scanner leaves between them
Spaced(ts) == Flatten([i \in DOMAIN ts |-> IF i = 1 THEN <<ts[i]>> ELSE <<" ", ts[i]>>])

\* primary (operator primary)*
ChainPrimaries == <<"a", "b", "c", "d", "f">>

ChainOperators == {"+", "*", "=", ":"}

Chain(ops) ==
    <<ChainPrimaries[1]>> \o Flatten([i \in DOMAIN ops |-> <<ops[i], ChainPrimaries[i + 1]>>])

OperatorChains == {Chain(ops) : ops \in SeqsOf(ChainOperators, MaxOperators) \ {<<>>}}

\* the code of the example program and its like
ExampleCodes ==
    { Spaced(<<"2", "+", "3", "*", "6">>),
      Spaced(<<"10", "-", "3", "-", "2">>),
      Spaced(<<"{", "2", "+", "3", "}", "*", "6">>),
      <<"2", "*", "3", "\n", "+", "6">>,
      <<"6", "-", "x">> }

\* token arrays after which a primary is expected
PrimaryContexts ==
    { <<>>, <<"a", "+">>, <<"a", ":">>, <<"f", "(">>, <<"f", "(", "a", ",">>, <<"{">>,
      <<"fn", "(", "a", ")">>, <<"fn", "(">>, <<"fn", "(", "a", ",">> }

AnnotationLists == {<<"@lazy">>, <<"@x">>, <<"@lazy", "@x">>}

\* inputs that end where a primary is expected
PrematureInputs ==
    {c \o d \o a : c \in PrimaryContexts, d \in PrimaryContexts,
                   a \in AnnotationLists \cup {<<>>}}

\* an annotated primary and its argument lists
AnnotatedLeaves ==
    { <<"f">>, <<"{", "a", "}">>, <<"{", "@x", "a", "}">>,
      <<"{", "fn", "(", "x", ")", "x", "}">> }

ArgumentLists == {<<"(", ")">>, <<"(", "a", ")">>, <<"(", "a", ",", "b", ")">>}

AnnotatedCalls ==
    {a \o l \o Flatten(c) : a \in AnnotationLists, l \in AnnotatedLeaves,
                            c \in SeqsOf(ArgumentLists, MaxCalls) \ {<<>>}}

\* an annotated group in braces, with nothing after it
AnnotatedGroups ==
    {a \o <<"{">> \o b \o <<"a", "}">> : a \in AnnotationLists \cup {<<>>},
                                         b \in AnnotationLists}

OtherInputs ==
    { <<"fn", "(", "a", ",", "@lazy", "b", ")", "a", "+", "b", ";", "c">>,
      <<"fn", "a">>, <<"{", "a">>, <<"f", "(", "a", "b", ")">>, <<"a", ")">>,
      <<"a", "@lazy", "b">>, <<" ">>, <<"a", " ", "\n">> }

ParseInputs ==
    OperatorChains \cup ExampleCodes \cup PrematureInputs \cup AnnotatedCalls
        \cup AnnotatedGroups \cup OtherInputs

Id(name) == Identifier(name)

Lazy(name) == SetAnnotations(Identifier(name), <<"@lazy">>)

Eager(name) == SetAnnotations(Identifier(name), <<>>)

\* the splits of n arguments into successive call groups
RECURSIVE Compositions(_)
Compositions(n) ==
    IF n = 0 THEN {<<>>}
    ELSE UNION {{<<k>> \o c : c \in Compositions(n - k)} : k \in 1..n}

\* callee(args of group 1)(args of group 2)...
RECURSIVE CallGroups(_, _, _)
CallGroups(callee, args, split) ==
    IF split = <<>> THEN callee
    ELSE CallGroups(FuncCall(callee, SubSeq(args, 1, split[1])),
                    SubSeq(args, split[1] + 1, Len(args)), Tail(split))

ParamNames == <<"a", "b", "c", "d", "e">>

NumberNames == <<"1", "2", "3", "4", "5">>

Params(n, lazy) ==
    [i \in 1..n |-> IF i \in lazy THEN Lazy(ParamNames[i]) ELSE Eager(ParamNames[i])]

\* a + b + ..., every lazy parameter forced by a call without arguments
RECURSIVE SumBody(_, _)
SumBody(n, lazy) ==
    LET term == IF n \in lazy THEN FuncCall(Id(ParamNames[n]), <<>>) ELSE Id(ParamNames[n])
    IN  IF n = 1 THEN term ELSE FuncCall(Id("+"), <<SumBody(n - 1, lazy), term>>)

Bodies(n, lazy) == {Id("7"), Id(ParamNames[1]), SumBody(n, lazy)}

\* numbers; or, at the lazy positions, an unbound name or a call with an effect
ArgumentChoices(n, lazy) ==
    { [i \in 1..n |-> IF i \in lazy THEN special ELSE Id(NumberNames[i])] :
        special \in {Id("u"), FuncCall(Id("tick"), <<>>)} }
    \cup {[i \in 1..n |-> Id(NumberNames[i])]}

CurriedOf(n, lazy) ==
    { CallGroups(FuncDefinition(Params(n, lazy), body), args, split) :
        body \in Bodies(n, lazy), args \in ArgumentChoices(n, lazy),
        split \in Compositions(n) }

CurriedPrograms ==
    UNION {UNION {CurriedOf(n, lazy) : lazy \in SUBSET (1..n)} : n \in 2..MaxParams}

Fn(params, body) == FuncDefinition(params, body)

\* x is 1 where the closure is defined and 2 where it is called
LexicalPrograms ==
    { \* {fn(x) {fn(f) {fn(x) f(0)}(2)}(fn(y) x)}(1)
      FuncCall(Fn(<<Eager("x")>>,
                  FuncCall(Fn(<<Eager("f")>>,
                              FuncCall(Fn(<<Eager("x")>>, FuncCall(Id("f"), <<Id("0")>>)),
                                       <<Id("2")>>)),
                           <<Fn(<<Eager("y")>>, Id("x"))>>)),
               <<Id("1")>>),
      \* the closure called through a partial application: f(0)(0)
      FuncCall(Fn(<<Eager("x")>>,
                  FuncCall(Fn(<<Eager("f")>>,
                              FuncCall(Fn(<<Eager("x")>>,
                                          FuncCall(FuncCall(Id("f"), <<Id("0")>>), <<Id("0")>>)),
                                       <<Id("2")>>)),
                           <<Fn(<<Eager("y"), Eager("z")>>, Id("x"))>>)),
               <<Id("1")>>),
      \* a lazy argument forced inside another function:
      \* {fn(x) {fn(@lazy t) {fn(x) t()}(2)}(x)}(1)
      FuncCall(Fn(<<Eager("x")>>,
                  FuncCall(Fn(<<Lazy("t")>>,
                              FuncCall(Fn(<<Eager("x")>>, FuncCall(Id("t"), <<>>)),
                                       <<Id("2")>>)),
                           <<Id("x")>>)),
               <<Id("1")>>),
      \* a parameter with the name of a global: {fn(h) g - 8}({fn(g) g}(5))
      FuncCall(Fn(<<Eager("h")>>, FuncCall(Id("-"), <<Id("g"), Id("8")>>)),
               <<FuncCall(Fn(<<Eager("g")>>, Id("g")), <<Id("5")>>)>>) }

Leaves == {Id("1"), Id("u"), Id("+"), Id("tick"), Fn(<<Lazy("a")>>, Id("g"))}

LeafPrograms == Leaves \cup {FuncCall(f, args) : f \in Leaves, args \in SeqsOf(Leaves, MaxArgs)}

OtherPrograms ==
    { \* 1 + u, tick() + u, {fn(x) x(1)}(3), +(1)(2), +(1, 2, 3)
      FuncCall(Id("+"), <<Id("1"), Id("u")>>),
      FuncCall(Id("+"), <<FuncCall(Id("tick"), <<>>), Id("u")>>),
      FuncCall(Fn(<<Eager("x")>>, FuncCall(Id("x"), <<Id("1")>>)), <<Id("3")>>),
      FuncCall(FuncCall(Id("+"), <<Id("1")>>), <<Id("2")>>),
      FuncCall(FuncCall(FuncCall(Id("+"), <<>>), <<Id("1")>>), <<Id("2")>>),
      FuncCall(Id("+"), <<Id("1"), Id("2"), Id("3")>>) }

Programs == CurriedPrograms \cup LexicalPrograms \cup LeafPrograms \cup OtherPrograms

Wrappers == {"identity", "trace"}

(***************************************************************************)
(* The state: the token array and what parse made of it, and the machine   *)
(* of one interpret call.                                                  *)
(***************************************************************************)
VARIABLES tokens, parsed, expression, wrapper, control, scopes, continuations,
          log, wrapCalls, callbackCalls, result, effects

vars == <<tokens, parsed, expression, wrapper, control, scopes, continuations,
          log, wrapCalls, callbackCalls, result, effects>>

Machine ==
    [control |-> control, expression |-> expression, wrapInvocation |-> wrapper,
     scopes |-> scopes, continuations |-> continuations, log |-> log,
     wrapCalls |-> wrapCalls, callbackCalls |-> callbackCalls, result |-> result,
     effects |-> effects]

Becomes(m) ==
    /\ control' = m.control
    /\ expression' = m.expression
    /\ wrapper' = m.wrapInvocation
    /\ scopes' = m.scopes
    /\ continuations' = m.continuations
    /\ log' = m.log
    /\ wrapCalls' = m.wrapCalls
    /\ callbackCalls' = m.callbackCalls
    /\ result' = m.result
    /\ effects' = m.effects
    /\ UNCHANGED <<tokens, parsed>>

NotParsed == [thrown |-> FALSE, pending |-> TRUE]

InitParse ==
    /\ tokens \in ParseInputs
    /\ parsed = NotParsed
    /\ wrapper \in Wrappers
    /\ control = [op |-> "parse"]
    /\ expression = Id(UNDEFINED)
    /\ scopes = <<[proto |-> 0, own |-> Globals]>>
    /\ continuations = <<[kind |-> "callback", calls |-> 0]>>
    /\ log = <<>>
    /\ wrapCalls = 0
    /\ callbackCalls = 0
    /\ result = Undefined
    /\ effects = 0

InitInterpret ==
    /\ tokens = <<>>
    /\ parsed = NotParsed
    /\ \E e \in Programs, w \in Wrappers :
          /\ expression = e
          /\ wrapper = w
          /\ control = Start(e, w).control
          /\ scopes = Start(e, w).scopes
          /\ continuations = Start(e, w).continuations
          /\ log = Start(e, w).log
          /\ wrapCalls = Start(e, w).wrapCalls
          /\ callbackCalls = Start(e, w).callbackCalls
          /\ result = Start(e, w).result
          /\ effects = Start(e, w).effects

Init == InitParse \/ InitInterpret

\* the example program: parse(scan(code), ops), and interpret of the
\* expression when the code is one the host's globals can run
Parse ==
    /\ control.op = "parse"
    /\ parsed' = parse(tokens)
    /\ IF ~parsed'.thrown /\ tokens \in ExampleCodes
       THEN /\ expression' = parsed'.node
            /\ control' = [op |-> "interpret"]
       ELSE /\ expression' = expression
            /\ control' = [op |-> "parsed"]
    /\ UNCHANGED <<tokens, wrapper, scopes, continuations, log, wrapCalls,
                   callbackCalls, result, effects>>

Interpret ==
    /\ control.op = "interpret"
    /\ Becomes(interpret(Machine))

EvaluateIdentifier ==
    /\ control.op = "evaluate"
    /\ control.node.type = "Identifier"
    /\ Becomes(IdentifierEvaluate(Machine, control.node, control.variables,
                                  control.continuation))

EvaluateFuncDefinition ==
    /\ control.op = "evaluate"
    /\ control.node.type = "FuncDefinition"
    /\ Becomes(FuncDefinitionEvaluate(Machine, control.node, control.variables,
                                      control.continuation))

EvaluateFuncCall ==
    /\ control.op = "evaluate"
    /\ control.node.type = "FuncCall"
    /\ Becomes(FuncCallEvaluate(Machine, control.node, control.variables,
                                control.continuation))

ContinueFunc ==
    /\ control.op = "continuation"
    /\ continuations[control.continuation].kind = "continueFunc"
    /\ Becomes(continueFunc(Entered(Machine, control.continuation),
                            control.continuation, control.value))

ContinueArg ==
    /\ control.op = "continueArg"
    /\ Becomes(continueArg(Machine, control))

EvaluateArgument ==
    /\ control.op = "evaluateArgument"
    /\ Becomes(evaluateArgument(Machine, control))

BindArgument ==
    /\ control.op = "continuation"
    /\ continuations[control.continuation].kind = "bindArgument"
    /\ Becomes(bindArgument(Entered(Machine, control.continuation),
                            control.continuation, control.value))

Invoke ==
    /\ control.op = "invoke"
    /\ Becomes(invoke(Machine, control))

ExecuteClosure ==
    /\ control.op = "execute"
    /\ control.func.tag = "closure"
    /\ Becomes(closureExecute(Machine, control))

ExecutePartial ==
    /\ control.op = "execute"
    /\ control.func.tag = "partial"
    /\ Becomes(partialExecute(Machine, control))

Wrapped ==
    /\ control.op = "continuation"
    /\ continuations[control.continuation].kind = "wrapped"
    /\ Becomes(wrapped(Entered(Machine, control.continuation),
                       control.continuation, control.value))

Callback ==
    /\ control.op = "continuation"
    /\ continuations[control.continuation].kind = "callback"
    /\ Becomes(callback(Entered(Machine, control.continuation),
                        control.continuation, control.value))

Next ==
    \/ Parse
    \/ Interpret
    \/ EvaluateIdentifier
    \/ EvaluateFuncDefinition
    \/ EvaluateFuncCall
    \/ ContinueFunc
    \/ ContinueArg
    \/ EvaluateArgument
    \/ BindArgument
    \/ Invoke
    \/ ExecuteClosure
    \/ ExecutePartial
    \/ Wrapped
    \/ Callback

Spec == Init /\ [][Next]_vars

(***************************************************************************)
(* What the claims speak of.                                               *)
(***************************************************************************)
Returned == control.op = "returned"

Thrown == control.op = "thrown"

IsLazyParameter(parameter) ==
    /\ "annotations" \in DOMAIN parameter
    /\ \E i \in DOMAIN parameter.annotations : parameter.annotations[i] = "@lazy"

\* whether the parameter that argument index of a call of func binds is
\* declared @lazy by the closure under func
RECURSIVE DeclaredLazy(_, _)
DeclaredLazy(func, index) ==
    CASE func.tag = "closure" ->
           index < Len(func.parameters) /\ IsLazyParameter(func.parameters[index + 1])
      [] func.tag = "partial" -> DeclaredLazy(func.func, Len(func.args) + index)
      [] OTHER -> FALSE

\* the callable under a partial application, and the arguments bound on the way
RECURSIVE Underlying(_)
Underlying(func) == IF func.tag = "partial" THEN Underlying(func.func) ELSE func

RECURSIVE BoundSoFar(_)
BoundSoFar(func) ==
    IF func.tag = "partial" THEN BoundSoFar(func.func) + Len(func.args) ELSE 0

\* the number of under-applications that built func
RECURSIVE UnderApplications(_)
UnderApplications(func) ==
    IF func.tag = "partial" THEN UnderApplications(func.func) + 1 ELSE 0

\* f(a)(b)(c) as f(a, b, c)
RECURSIVE ChainHead(_)
ChainHead(e) == IF e.type = "FuncCall" THEN ChainHead(e.func) ELSE e

RECURSIVE ChainArgs(_)
ChainArgs(e) == IF e.type = "FuncCall" THEN ChainArgs(e.func) \o e.args ELSE <<>>

Uncurried(e) == FuncCall(ChainHead(e), ChainArgs(e))

\* what the host sees of an interpret call
Outcome(m) ==
    [op |-> m.control.op,
     error |-> IF m.control.op = "thrown" THEN m.control.error ELSE "",
     value |-> IF m.result.tag = "number" THEN m.result ELSE [tag |-> m.result.tag],
     effects |-> m.effects]

\* C1: a closure applied in successive call groups delivers what the single
\* full application delivers, lazy parameters or not, and every partial
\* application delivered on the way has the declared arity minus the number
\* of arguments bound so far as its length.
C1_CurryingEquivalence ==
    /\ (control.op = "continuation" /\ control.value.tag = "partial")
          => control.value.length =
                Underlying(control.value).length - BoundSoFar(control.value)
    /\ (expression \in CurriedPrograms /\ (Returned \/ Thrown))
          => Outcome(Machine) = Outcome(Run(Start(Uncurried(expression), wrapper)))

\* C2: an argument whose declared parameter is @lazy is never evaluated at
\* the call site, directly or through a partial application of the closure:
\* it is passed as a thunk, so a body that never forces it neither fails nor
\* produces the effect of the argument.
C2_LazyArgumentsNotEvaluated ==
    /\ \A i \in DOMAIN log :
          (log[i].event = "argument" /\ DeclaredLazy(log[i].func, log[i].index))
             => log[i].lazy
    /\ (expression \in CurriedPrograms /\ ChainHead(expression).body = Id("7")
          /\ (Returned \/ Thrown))
          => (Returned /\ effects = 0)

\* C3: every continuation is invoked at most once; when interpret returns,
\* every continuation made was invoked exactly once, the callback among
\* them; when it throws, the callback was not invoked.
C3_ExactlyOnce ==
    /\ callbackCalls <= 1
    /\ \A k \in DOMAIN continuations : continuations[k].calls <= 1
    /\ Returned => /\ callbackCalls = 1
                   /\ result.tag # "undefined"
                   /\ \A k \in DOMAIN continuations : continuations[k].calls = 1
    /\ Thrown => callbackCalls = 0 /\ continuations[1].calls = 0

C3_Witness ==
    /\ Returned
    /\ wrapper = "trace"
    /\ callbackCalls = 1
    /\ \E i \in DOMAIN log : log[i].event = "invoke" /\ log[i].branch = "partial"
    /\ \E i \in DOMAIN log : log[i].event = "execute"

UnboundReached ==
    /\ control.op = "evaluate"
    /\ control.node.type = "Identifier"
    /\ parseInt(control.node.name).isNaN
    /\ ~In(scopes, control.node.name, control.variables)

NotCallableReached ==
    /\ control.op = "invoke"
    /\ control.func.tag \notin {"closure", "partial", "function"}

C7_LexicalScoping ==
    /\ [](\A i \in DOMAIN log :
            log[i].event = "execute" =>
               /\ \E j \in 1..(i - 1) :
                     /\ log[j].event = "compile"
                     /\ log[j].func = log[i].func
                     /\ scopes[log[i].symbols].proto = log[j].variables
               /\ DOMAIN scopes[log[i].symbols].own =
                     {log[i].func.parameters[n].name : n \in DOMAIN log[i].func.parameters})
    /\ []((Returned /\ expression \in LexicalPrograms) => result = Number(1))
    /\ []((Returned \/ Thrown) => scopes[1] = [proto |-> 0, own |-> Globals])
    /\ [][\A s \in DOMAIN scopes : scopes'[s] = scopes[s]]_vars

C7_Witness ==
    /\ Returned
    /\ expression \in LexicalPrograms
    /\ \E i \in DOMAIN log :
          /\ log[i].event = "execute"
          /\ log[i].variables # scopes[log[i].symbols].proto
          /\ log[i].target.tag = "partial"

\* C8: every invocation step applies the wrapper once, first, and hands its
\* result or its body only the continuation the wrapper returned; reaching
\* the callable under a partial application built by n under-applications
\* takes n + 1 applications of the wrapper, a full application one.
C8_WrapperInterception ==
    /\ \A i \in DOMAIN log :
          /\ log[i].event = "invoke" =>
                /\ i > 1
                /\ log[i - 1].event = "wrap"
                /\ log[i - 1].returned = log[i].continuation
                /\ wrapper = "trace" => log[i - 1].given # log[i].continuation
          /\ (log[i].event = "wrap" /\ i < Len(log)) => log[i + 1].event = "invoke"
          /\ (log[i].event = "wrap" /\ i = Len(log)) => Thrown
          /\ log[i].event \in {"execute", "reached"} =>
                log[i].wraps = UnderApplications(log[i].target) + 1
    /\ wrapCalls = Cardinality({i \in DOMAIN log : log[i].event = "wrap"})

C8_Witness ==
    /\ Returned
    /\ wrapper = "trace"
    /\ \E i \in DOMAIN log :
          /\ log[i].event = "execute"
          /\ UnderApplications(log[i].target) = 2
          /\ log[i].wraps = 3

CallEvents == {"call", "callee", "argument", "bound", "resolved"}

\* the events of one evaluation of a FuncCall, in order
OfCall(id) == SelectSeq(log, LAMBDA e : e.event \in CallEvents /\ e.call = id)

InOrder(id) ==
    LET es == OfCall(id)
        args == continuations[id].args
        n == Len(args)
    IN  /\ Len(es) <= 2 * n + 3
        /\ \A j \in DOMAIN es :
              CASE j = 1 -> es[j].event = "call"
                [] j = 2 -> es[j].event = "callee"
                [] j = 2 * n + 3 ->
                     /\ es[j].event = "resolved"
                     /\ Len(es[j].values) = n
                     /\ \A i \in 1..n : es[j].values[i] = es[2 * i + 2].value
                [] j > 2 /\ j < 2 * n + 3 /\ j % 2 = 1 ->
                     /\ es[j].event = "argument"
                     /\ es[j].index = (j - 3) \div 2
                     /\ es[j].node = args[es[j].index + 1]
                     /\ es[j].func = es[2].func
                     /\ ~DeclaredLazy(es[j].func, es[j].index) => ~es[j].lazy
                [] OTHER ->
                     /\ es[j].event = "bound"
                     /\ es[j].index = (j - 4) \div 2

\* C9: in every call the callee is evaluated first, then the arguments one
\* at a time in index order, each delivered before the next starts and none
\* twice or skipped, and the callable is invoked after the last with the
\* values in the positions of their expressions.
C9_EvaluationOrder ==
    /\ \A id \in DOMAIN continuations :
          continuations[id].kind = "continueFunc" => InOrder(id)
    /\ \A i \in DOMAIN log :
          log[i].event \in CallEvents => continuations[log[i].call].kind = "continueFunc"
    /\ control.op = "invoke" /\ log[Len(log)].event = "resolved"
          => control.args = log[Len(log)].values

C9_Witness ==
    /\ Returned
    /\ \E i \in DOMAIN log :
          /\ log[i].event = "resolved"
          /\ Len(log[i].values) = 3
          /\ \E j \in DOMAIN log :
                /\ log[j].event = "argument"
                /\ log[j].call = log[i].call
                /\ log[j].node.type = "FuncCall"

Parsed == control.op \in {"parsed", "interpret"} /\ parsed # NotParsed

\* the grouping a chain of operators has by precedence and associativity
RECURSIVE ReferenceTail(_, _, _, _)
ReferenceTail(ts, i, left, least) ==
    IF i > Len(ts) \/ getPrecedence(ts[i]) < least THEN [node |-> left, next |-> i]
    ELSE LET precedence == getPrecedence(ts[i])
             right == ReferenceTail(ts, i + 2, Eager(ts[i + 1]),
                                    IF bindsToRight(ts[i]) THEN precedence
                                    ELSE precedence + 1)
         IN  ReferenceTail(ts, right.next, FuncCall(Id(ts[i]), <<left, right.node>>), least)

ReferenceGrouping(ts) == ReferenceTail(ts, 2, Eager(ts[1]), 0).node

\* C5: parse groups a chain primary (operator primary)* by precedence, to
\* the left between operators of equal precedence, and to the right in a
\* chain of ':', also with a tighter operator inside an operand.
C5_PrecedenceAndAssociativity ==
    (Parsed /\ tokens \in OperatorChains)
       => (~parsed.thrown /\ parsed.node = ReferenceGrouping(tokens))

\* C6: parse throws a SyntaxError for every input that ends where a primary
\* is expected, after annotation tokens too.
C6_PrematureEndThrows ==
    (Parsed /\ tokens \in PrematureInputs)
       => (parsed.thrown /\ parsed.error = "SyntaxError")

\* the callee k levels under a node
RECURSIVE CalleeAt(_, _)
CalleeAt(node, k) == IF k = 0 THEN node ELSE CalleeAt(node.func, k - 1)

HasAnnotations(node, annotations) ==
    "annotations" \in DOMAIN node /\ node.annotations = annotations

\* C10: the annotations before a primary with argument lists are
\* on the innermost primary and not on the FuncCall nodes around it, and no
\* annotations a node has received are overwritten.
C10_AnnotationsOnInnermost ==
    Parsed =>
       /\ \A a \in AnnotationLists, l \in AnnotatedLeaves,
             c \in SeqsOf(ArgumentLists, MaxCalls) \ {<<>>} :
             tokens = a \o l \o Flatten(c) =>
                /\ ~parsed.thrown
                /\ HasAnnotations(CalleeAt(parsed.node, Len(c)), a)
                /\ \A k \in 0..(Len(c) - 1) :
                      ~HasAnnotations(CalleeAt(parsed.node, k), a)
       /\ \A a \in AnnotationLists \cup {<<>>}, b \in AnnotationLists :
             tokens = a \o <<"{">> \o b \o <<"a", "}">> =>
                (~parsed.thrown /\ HasAnnotations(parsed.node, b))

=============================================================================
